---- MODULE Spec2Model ----
(***************************************************************************)
(* The stock-ledger core of the ERP server: the handlers createItem,       *)
(* updateItem, adjustStock, createWorkOrder, completeWorkOrder and          *)
(* createPurchaseOrder over the tables of db/schema.ts.                      *)
(*                                                                           *)
(* The handlers hold no transaction: every db statement (select, insert,    *)
(* update) commits on its own.                                              *)
(*   Spec       two slots run the handlers statement by statement, so the   *)
(*              statements of concurrent calls interleave;                  *)
(*   SpecRace   the same, with adjustStock calls only;                      *)
(*   SpecSeq    each call of the stock and work order handlers runs to its  *)
(*              end before the next one starts;                             *)
(*   SpecAdjust createItem and adjustStock, call by call, over the whole    *)
(*              input schema;                                               *)
(*   SpecFault  SpecAdjust with a storage failure possible at adjustStock's *)
(*              second write;                                               *)
(*   SpecComplete  two slots run completeWorkOrder statement by statement;  *)
(*   SpecCreate    createItem and createWorkOrder, call by call;            *)
(*   SpecNumbers   work orders and purchase orders created at later times;  *)
(*   SpecPurchase  the catalog and createPurchaseOrder, call by call, over  *)
(*              the whole input schemas;                                    *)
(*   SpecCalls  every handler that writes, call by call;                    *)
(*   SpecExposed   the operations of the router only, call by call.         *)
(***************************************************************************)
EXTENDS Integers, Sequences, FiniteSets, TLC

\* ---------------------------------------------------------------- bounds

MaxItems == 1
MaxStock == 2
MaxWorkOrders == 1
MaxLines == 2
MaxAdjustments == 2
MaxPurchaseOrders == 1
MaxCreated == 2

\* ------------------------------------------------------------- the state

VARIABLES
    itemsTable,             \* id -> [current_stock, minimum_stock]; id = index
    stockAdjustmentsTable,  \* the ledger rows, in insertion order
    workOrdersTable,        \* id -> [work_order_number, assigned_technician, status, completed_at]
    workOrderItemsTable,    \* rows [work_order_id, item_id, quantity_used]
    purchaseOrdersTable,    \* id -> [po_number, supplier_id, status, total_amount]
    purchaseOrderItemsTable,\* rows [po_id, item_id, quantity, unit_price, total_price]
    procs,                  \* the calls in flight: each one's handler, position and locals
    last                    \* the call that returned last: handler, outcome, the id it named

vars == <<itemsTable, stockAdjustmentsTable, workOrdersTable, workOrderItemsTable,
          purchaseOrdersTable, purchaseOrderItemsTable, procs, last>>

poTables == <<purchaseOrdersTable, purchaseOrderItemsTable>>

tables == <<itemsTable, stockAdjustmentsTable, workOrdersTable, workOrderItemsTable,
            purchaseOrdersTable, purchaseOrderItemsTable>>

\* The tables as one value, for the operators that run a handler to its end.
DB == [items |-> itemsTable, adjustments |-> stockAdjustmentsTable,
       workOrders |-> workOrdersTable, workOrderItems |-> workOrderItemsTable]

NULL == <<>>

\* The slots for calls running at the same time.
Procs == {1, 2}

Idle == [op |-> "idle"]

\* users: clerk_id -> role.  No modelled handler writes this table.
usersTable == [u \in {"tech1", "admin1"} |->
                  IF u = "tech1" THEN "TECHNICIAN" ELSE "ADMIN"]

\* The clerk ids a request may name; "nobody" has no row in users.
ClerkIds == {"tech1", "admin1", "nobody"}

\* ctx.userId of the caller of inventory.adjustStock.
WarehouseManager == "admin1"

stockAdjustmentTypeSchema == {"ADDITION", "REMOVAL", "CORRECTION"}

workOrderStatusSchema == {"OPEN", "IN_PROGRESS", "COMPLETED"}

\* Item ids a request may name; the last one is never in the table.
RequestItemIds == 1..(MaxItems + 1)

\* z.number().int(): any integer, of either sign.
Quantities == (0 - MaxStock)..MaxStock

\* z.number().int().positive()
PositiveQuantities == 1..MaxStock

Abs(n) == IF n < 0 THEN 0 - n ELSE n

\* A reason text: `text` is the literal part, `ref` the work order number
\* the template string embeds (<<>> when it embeds none).
Reason(text, ref) == [text |-> text, ref |-> ref]

\* z.string(): the empty string passes.
Reasons == {Reason("", <<>>), Reason("recount", <<>>)}

\* ---------------------------------------------------------- db statements

\* db.select().from(itemsTable).where(eq(itemsTable.id, id))
SelectItem(items, id) ==
    IF id \in DOMAIN items THEN <<items[id]>> ELSE <<>>

\* An update whose where clause matches no row.
UpdateItemStockMatchesNoRow(items, id, newStock) == items

\* db.update(itemsTable).set({current_stock: newStock, ...}).where(eq(id))
UpdateItemStock(items, id, newStock) ==
    IF id \in DOMAIN items
    THEN [items EXCEPT ![id].current_stock = newStock]
    ELSE items

\* An insert that keeps one row per item: it overwrites the item's last row.
InsertStockAdjustmentOverwrites(adjustments, row) ==
    IF \E k \in DOMAIN adjustments : adjustments[k].item_id = row.item_id
    THEN [k \in DOMAIN adjustments |->
            IF adjustments[k].item_id = row.item_id THEN row ELSE adjustments[k]]
    ELSE Append(adjustments, row)

\* db.insert(stockAdjustmentsTable).values(row)
InsertStockAdjustment(adjustments, row) == Append(adjustments, row)

\* Money is counted in thousandths of the currency unit.  A numeric(_, 2)
\* column rounds what it is given to two decimals, half up.
RoundToCents(thousandths) == ((thousandths + 5) \div 10) * 10

\* --------------------------------------------------------------- createItem

\* createItemInputSchema: current_stock and minimum_stock int, nonnegative;
\* unit_price positive (the catalog price, here 2.00).
createItemInputSchema ==
    [current_stock : 0..MaxStock, minimum_stock : {0}, unit_price : {2000}]

createItem(input) ==
    /\ Len(itemsTable) < MaxItems
    /\ itemsTable' = Append(itemsTable,
           [current_stock |-> input.current_stock,
            minimum_stock |-> input.minimum_stock,
            unit_price |-> RoundToCents(input.unit_price)])
    /\ last' = [op |-> "createItem", outcome |-> "ok", arg |-> Len(itemsTable) + 1]
    /\ UNCHANGED <<stockAdjustmentsTable, workOrdersTable, workOrderItemsTable, poTables, procs>>

\* --------------------------------------------------------------- adjustStock

adjustStockInputSchema ==
    [item_id : RequestItemIds, adjustment_type : stockAdjustmentTypeSchema,
     quantity_change : Quantities, reason : Reasons]

\* A switch whose REMOVAL case negates the request's quantity without
\* taking its absolute value.
ActualQuantityChangeNoAbs(adjustment_type, quantity_change) ==
    CASE adjustment_type = "ADDITION" -> Abs(quantity_change)
      [] adjustment_type = "REMOVAL" -> 0 - quantity_change
      [] adjustment_type = "CORRECTION" -> quantity_change

\* The switch of adjustStock: the signed change written to the ledger.
ActualQuantityChange(adjustment_type, quantity_change) ==
    CASE adjustment_type = "ADDITION" -> Abs(quantity_change)
      [] adjustment_type = "REMOVAL" -> 0 - Abs(quantity_change)
      [] adjustment_type = "CORRECTION" -> quantity_change

\* A switch whose CORRECTION case has no check of the new stock.
AdjustThrowsRemovalOnly(adjustment_type, newStock) ==
    adjustment_type = "REMOVAL" /\ newStock < 0

\* The two throws inside the switch.
AdjustThrows(adjustment_type, newStock) ==
    CASE adjustment_type = "ADDITION" -> FALSE
      [] adjustment_type = "REMOVAL" -> newStock < 0
      [] adjustment_type = "CORRECTION" -> newStock < 0

AdjustError(adjustment_type) ==
    IF adjustment_type = "REMOVAL" THEN "insufficient_stock" ELSE "negative_correction"

\* A row that stores the request's quantity_change as given, unsigned.
AdjustmentRowRawChange(input, previousStock, adjustedBy) ==
    [item_id |-> input.item_id,
     adjustment_type |-> input.adjustment_type,
     quantity_change |-> input.quantity_change,
     reason |-> input.reason,
     previous_stock |-> previousStock,
     new_stock |-> previousStock
                   + ActualQuantityChange(input.adjustment_type, input.quantity_change),
     adjusted_by |-> adjustedBy]

\* The row adjustStock inserts.
AdjustmentRow(input, previousStock, adjustedBy) ==
    [item_id |-> input.item_id,
     adjustment_type |-> input.adjustment_type,
     quantity_change |-> ActualQuantityChange(input.adjustment_type, input.quantity_change),
     reason |-> input.reason,
     previous_stock |-> previousStock,
     new_stock |-> previousStock
                   + ActualQuantityChange(input.adjustment_type, input.quantity_change),
     adjusted_by |-> adjustedBy]

\* An adjustStock that writes current_stock before the switch throws.
adjustStockRunUpdatesFirst(db, input, adjustedBy, fault) ==
    LET existingItem == SelectItem(db.items, input.item_id) IN
    IF Len(existingItem) = 0
    THEN [db |-> db, outcome |-> "item_not_found"]
    ELSE
        LET row == AdjustmentRow(input, existingItem[1].current_stock, adjustedBy)
            updated == [db EXCEPT !.items =
                            UpdateItemStock(db.items, input.item_id, row.new_stock)]
        IN  IF AdjustThrows(input.adjustment_type, row.new_stock)
            THEN [db |-> updated, outcome |-> AdjustError(input.adjustment_type)]
            ELSE IF fault
            THEN [db |-> updated, outcome |-> "db_error"]
            ELSE [db |-> [updated EXCEPT !.adjustments =
                              InsertStockAdjustment(db.adjustments, row)],
                  outcome |-> "ok"]

\* One whole call of adjustStock on the tables db.  `fault`: the insert of the
\* ledger row (the second write) throws.
adjustStockRun(db, input, adjustedBy, fault) ==
    LET existingItem == SelectItem(db.items, input.item_id) IN
    IF Len(existingItem) = 0
    THEN [db |-> db, outcome |-> "item_not_found"]
    ELSE
        LET previousStock == existingItem[1].current_stock
            row == AdjustmentRow(input, previousStock, adjustedBy)
            updated == [db EXCEPT !.items =
                            UpdateItemStock(db.items, input.item_id, row.new_stock)]
        IN  IF AdjustThrows(input.adjustment_type, row.new_stock)
            THEN [db |-> db, outcome |-> AdjustError(input.adjustment_type)]
            ELSE IF fault
            THEN [db |-> updated, outcome |-> "db_error"]
            ELSE [db |-> [updated EXCEPT !.adjustments =
                              InsertStockAdjustment(db.adjustments, row)],
                  outcome |-> "ok"]

\* The model's caps: stock stays within 0..MaxStock upwards, the ledger
\* within MaxAdjustments rows.
WithinBounds(db) ==
    /\ \A i \in DOMAIN db.items : db.items[i].current_stock <= MaxStock
    /\ Len(db.adjustments) <= MaxAdjustments

Commit(db) ==
    /\ WithinBounds(db)
    /\ itemsTable' = db.items
    /\ stockAdjustmentsTable' = db.adjustments
    /\ workOrdersTable' = db.workOrders
    /\ workOrderItemsTable' = db.workOrderItems

adjustStock(input, fault) ==
    LET r == adjustStockRun(DB, input, WarehouseManager, fault) IN
    /\ Commit(r.db)
    /\ last' = [op |-> "adjustStock", outcome |-> r.outcome, arg |-> input.item_id]
    /\ UNCHANGED <<poTables, procs>>

\* ---------------------------------------------------------- work orders

\* String(Date.now()).slice(-4): the last four decimal digits.
TimestampModulus == 10000

MsPerDay == 86400000

\* `WO-${dateStr}-${timestamp}` for a call made at `now` (ms): the date and
\* the last four digits of the time.
WorkOrderNumber(now) == <<now \div MsPerDay, now % TimestampModulus>>

\* The literal numbers of rows written straight into the table
\* ('WO-TEST-001', ...): no date in them.
FixtureNumber(n) == <<0 - 1, n>>

\* z.array(z.object({item_id, quantity_used: int positive})): every list of
\* at most MaxLines lines, the empty one too.
LineSchema == [item_id : RequestItemIds, quantity_used : PositiveQuantities]

RECURSIVE ListsOf(_, _)
ListsOf(S, n) ==
    IF n = 0 THEN {<<>>}
    ELSE LET shorter == ListsOf(S, n - 1)
         IN  shorter \cup {Append(l, x) : l \in {m \in shorter : Len(m) = n - 1}, x \in S}

createWorkOrderInputSchema ==
    [assigned_technician : ClerkIds, items : ListsOf(LineSchema, MaxLines)]

\* db.select().from(usersTable).where(eq(usersTable.clerk_id, clerk_id))
SelectUser(clerk_id) ==
    IF clerk_id \in DOMAIN usersTable THEN <<[role |-> usersTable[clerk_id]]>> ELSE <<>>

\* db.select().from(workOrdersTable).where(eq(workOrdersTable.id, id))
SelectWorkOrder(workOrders, id) ==
    IF id \in DOMAIN workOrders THEN <<workOrders[id]>> ELSE <<>>

\* db.select().from(workOrderItemsTable).where(eq(work_order_id, id)): the
\* rows of the work order, in table order.
SelectWorkOrderItems(workOrderItems, id) ==
    SelectSeq(workOrderItems, LAMBDA r : r.work_order_id = id)

\* work_order_number is .unique(): an insert of a number already there throws.
NumberTaken(workOrders, number) ==
    \E i \in DOMAIN workOrders : workOrders[i].work_order_number = number

\* A validation loop that also refuses a line asking for the whole stock.
RECURSIVE ValidateLinesStrict(_, _)
ValidateLinesStrict(items, lines) ==
    IF lines = <<>> THEN "ok"
    ELSE LET dbItem == SelectItem(items, Head(lines).item_id) IN
         IF Len(dbItem) = 0 THEN "item_not_found"
         ELSE IF dbItem[1].current_stock <= Head(lines).quantity_used
         THEN "insufficient_stock"
         ELSE ValidateLinesStrict(items, Tail(lines))

\* The error of the first line, in order, that createWorkOrder's validation
\* loop throws on; "ok" when every line passes.
RECURSIVE ValidateLines(_, _)
ValidateLines(items, lines) ==
    IF lines = <<>> THEN "ok"
    ELSE LET dbItem == SelectItem(items, Head(lines).item_id) IN
         IF Len(dbItem) = 0 THEN "item_not_found"
         ELSE IF dbItem[1].current_stock < Head(lines).quantity_used
         THEN "insufficient_stock"
         ELSE ValidateLines(items, Tail(lines))

\* The rows of step 5: one per line of the request.
WorkOrderItemRows(workOrderId, lines) ==
    [k \in 1..Len(lines) |->
        [work_order_id |-> workOrderId,
         item_id |-> lines[k].item_id,
         quantity_used |-> lines[k].quantity_used]]

\* The items with the quantities of the lines taken off their stock.
RECURSIVE ReserveLines(_, _)
ReserveLines(items, lines) ==
    IF lines = <<>> THEN items
    ELSE ReserveLines(
            UpdateItemStock(items, Head(lines).item_id,
                            items[Head(lines).item_id].current_stock
                                - Head(lines).quantity_used),
            Tail(lines))

\* A createWorkOrder that reserves the stock of its lines.
createWorkOrderRunReserves(db, input, now, fault) ==
    LET technician == SelectUser(input.assigned_technician)
        validation == ValidateLines(db.items, input.items)
        workOrder == [work_order_number |-> WorkOrderNumber(now),
                      assigned_technician |-> input.assigned_technician,
                      status |-> "OPEN",
                      completed_at |-> NULL]
    IN  IF Len(technician) = 0
        THEN [db |-> db, outcome |-> "technician_not_found"]
        ELSE IF technician[1].role # "TECHNICIAN"
        THEN [db |-> db, outcome |-> "not_technician"]
        ELSE IF validation # "ok"
        THEN [db |-> db, outcome |-> validation]
        ELSE [db |-> [db EXCEPT
                         !.items = ReserveLines(db.items, input.items),
                         !.workOrders = Append(db.workOrders, workOrder),
                         !.workOrderItems =
                             db.workOrderItems
                             \o WorkOrderItemRows(Len(db.workOrders) + 1, input.items)],
              outcome |-> "ok"]

\* A createWorkOrder that takes any user of the table as technician.
createWorkOrderRunAnyRole(db, input, now, fault) ==
    LET technician == SelectUser(input.assigned_technician)
        validation == ValidateLines(db.items, input.items)
        workOrder == [work_order_number |-> WorkOrderNumber(now),
                      assigned_technician |-> input.assigned_technician,
                      status |-> "OPEN",
                      completed_at |-> NULL]
    IN  IF Len(technician) = 0
        THEN [db |-> db, outcome |-> "technician_not_found"]
        ELSE IF validation # "ok"
        THEN [db |-> db, outcome |-> validation]
        ELSE [db |-> [db EXCEPT
                         !.workOrders = Append(db.workOrders, workOrder),
                         !.workOrderItems =
                             db.workOrderItems
                             \o WorkOrderItemRows(Len(db.workOrders) + 1, input.items)],
              outcome |-> "ok"]

\* createWorkOrder inserting the work order already IN_PROGRESS.
createWorkOrderRunStartsInProgress(db, input, now, fault) ==
    LET workOrderNumber == WorkOrderNumber(now)
        technician == SelectUser(input.assigned_technician)
        validation == ValidateLines(db.items, input.items)
        workOrder == [work_order_number |-> workOrderNumber,
                      assigned_technician |-> input.assigned_technician,
                      status |-> "IN_PROGRESS",
                      completed_at |-> NULL]
        inserted == [db EXCEPT !.workOrders = Append(db.workOrders, workOrder)]
        workOrderId == Len(db.workOrders) + 1
    IN  IF Len(technician) = 0
        THEN [db |-> db, outcome |-> "technician_not_found"]
        ELSE IF technician[1].role # "TECHNICIAN"
        THEN [db |-> db, outcome |-> "not_technician"]
        ELSE IF validation # "ok"
        THEN [db |-> db, outcome |-> validation]
        ELSE IF NumberTaken(db.workOrders, workOrderNumber)
        THEN [db |-> db, outcome |-> "db_error"]
        \* .values([]) throws in the query builder, after the work order's insert
        ELSE IF input.items = <<>>
        THEN [db |-> inserted, outcome |-> "empty_values"]
        ELSE IF fault
        THEN [db |-> inserted, outcome |-> "db_error"]
        ELSE [db |-> [inserted EXCEPT !.workOrderItems =
                          db.workOrderItems \o WorkOrderItemRows(workOrderId, input.items)],
              outcome |-> "ok"]

\* One whole call of createWorkOrder at time `now`.  `fault`: the insert of
\* the lines (the second write) throws.
createWorkOrderRun(db, input, now, fault) ==
    LET workOrderNumber == WorkOrderNumber(now)
        technician == SelectUser(input.assigned_technician)
        validation == ValidateLines(db.items, input.items)
        workOrder == [work_order_number |-> workOrderNumber,
                      assigned_technician |-> input.assigned_technician,
                      status |-> "OPEN",
                      completed_at |-> NULL]
        inserted == [db EXCEPT !.workOrders = Append(db.workOrders, workOrder)]
        workOrderId == Len(db.workOrders) + 1
    IN  IF Len(technician) = 0
        THEN [db |-> db, outcome |-> "technician_not_found"]
        ELSE IF technician[1].role # "TECHNICIAN"
        THEN [db |-> db, outcome |-> "not_technician"]
        ELSE IF validation # "ok"
        THEN [db |-> db, outcome |-> validation]
        ELSE IF NumberTaken(db.workOrders, workOrderNumber)
        THEN [db |-> db, outcome |-> "db_error"]
        \* .values([]) throws in the query builder, after the work order's insert
        ELSE IF input.items = <<>>
        THEN [db |-> inserted, outcome |-> "empty_values"]
        ELSE IF fault
        THEN [db |-> inserted, outcome |-> "db_error"]
        ELSE [db |-> [inserted EXCEPT !.workOrderItems =
                          db.workOrderItems \o WorkOrderItemRows(workOrderId, input.items)],
              outcome |-> "ok"]

\* A completion row with the quantity used as its change, not its negation.
CompletionRowPositiveChange(workOrder, workOrderItem, previousStock) ==
    [item_id |-> workOrderItem.item_id,
     adjustment_type |-> "REMOVAL",
     quantity_change |-> workOrderItem.quantity_used,
     reason |-> Reason("Work order completion: ", workOrder.work_order_number),
     previous_stock |-> previousStock,
     new_stock |-> previousStock - workOrderItem.quantity_used,
     adjusted_by |-> workOrder.assigned_technician]

\* The ledger row completeWorkOrder inserts for one line.
CompletionRow(workOrder, workOrderItem, previousStock) ==
    [item_id |-> workOrderItem.item_id,
     adjustment_type |-> "REMOVAL",
     quantity_change |-> 0 - workOrderItem.quantity_used,
     reason |-> Reason("Work order completion: ", workOrder.work_order_number),
     previous_stock |-> previousStock,
     new_stock |-> previousStock - workOrderItem.quantity_used,
     adjusted_by |-> workOrder.assigned_technician]

\* The loop of completeWorkOrder over the lines still to do: each line's
\* update and insert are written before the next line is looked at.
RECURSIVE CompleteLines(_, _, _)
CompleteLines(db, workOrder, workOrderItems) ==
    IF workOrderItems = <<>> THEN [db |-> db, outcome |-> "ok"]
    ELSE
        LET workOrderItem == Head(workOrderItems)
            itemResults == SelectItem(db.items, workOrderItem.item_id)
        IN  IF Len(itemResults) = 0
            THEN [db |-> db, outcome |-> "item_not_found"]
            ELSE
                LET row == CompletionRow(workOrder, workOrderItem,
                                         itemResults[1].current_stock)
                IN  IF row.new_stock < 0
                    THEN [db |-> db, outcome |-> "insufficient_stock"]
                    ELSE CompleteLines(
                            [db EXCEPT
                                !.items = UpdateItemStock(db.items, workOrderItem.item_id,
                                                          row.new_stock),
                                !.adjustments = InsertStockAdjustment(db.adjustments, row)],
                            workOrder, Tail(workOrderItems))

\* db.update(workOrdersTable).set({status: 'COMPLETED', completed_at, ...})
UpdateWorkOrderCompleted(workOrders, id, completedAt) ==
    IF id \in DOMAIN workOrders
    THEN [workOrders EXCEPT ![id].status = "COMPLETED", ![id].completed_at = <<completedAt>>]
    ELSE workOrders

\* A loop that deducts every line without looking at the new stock.
RECURSIVE CompleteLinesUnchecked(_, _, _)
CompleteLinesUnchecked(db, workOrder, workOrderItems) ==
    IF workOrderItems = <<>> THEN [db |-> db, outcome |-> "ok"]
    ELSE
        LET workOrderItem == Head(workOrderItems)
            itemResults == SelectItem(db.items, workOrderItem.item_id)
        IN  IF Len(itemResults) = 0
            THEN [db |-> db, outcome |-> "item_not_found"]
            ELSE
                LET row == CompletionRow(workOrder, workOrderItem,
                                         itemResults[1].current_stock)
                IN  CompleteLinesUnchecked(
                        [db EXCEPT
                            !.items = UpdateItemStock(db.items, workOrderItem.item_id,
                                                      row.new_stock),
                            !.adjustments = InsertStockAdjustment(db.adjustments, row)],
                        workOrder, Tail(workOrderItems))

\* A completeWorkOrder that does not validate the stock again.
completeWorkOrderRunUnchecked(db, work_order_id, now) ==
    LET workOrderResults == SelectWorkOrder(db.workOrders, work_order_id) IN
    IF Len(workOrderResults) = 0
    THEN [db |-> db, outcome |-> "work_order_not_found"]
    ELSE IF workOrderResults[1].status # "IN_PROGRESS"
    THEN [db |-> db, outcome |-> "not_in_progress"]
    ELSE
        LET lines == CompleteLinesUnchecked(db, workOrderResults[1],
                         SelectWorkOrderItems(db.workOrderItems, work_order_id))
        IN  IF lines.outcome # "ok"
            THEN lines
            ELSE [db |-> [lines.db EXCEPT !.workOrders =
                              UpdateWorkOrderCompleted(lines.db.workOrders, work_order_id, now)],
                  outcome |-> "ok"]

\* A completeWorkOrder without the check of the status.
completeWorkOrderRunNoStatusCheck(db, work_order_id, now) ==
    LET workOrderResults == SelectWorkOrder(db.workOrders, work_order_id) IN
    IF Len(workOrderResults) = 0
    THEN [db |-> db, outcome |-> "work_order_not_found"]
    ELSE
        LET lines == CompleteLines(db, workOrderResults[1],
                                   SelectWorkOrderItems(db.workOrderItems, work_order_id))
        IN  IF lines.outcome # "ok"
            THEN lines
            ELSE [db |-> [lines.db EXCEPT !.workOrders =
                              UpdateWorkOrderCompleted(lines.db.workOrders, work_order_id, now)],
                  outcome |-> "ok"]

\* A completeWorkOrder that marks the work order COMPLETED before the loop.
completeWorkOrderRunMarksFirst(db, work_order_id, now) ==
    LET workOrderResults == SelectWorkOrder(db.workOrders, work_order_id) IN
    IF Len(workOrderResults) = 0
    THEN [db |-> db, outcome |-> "work_order_not_found"]
    ELSE IF workOrderResults[1].status # "IN_PROGRESS"
    THEN [db |-> db, outcome |-> "not_in_progress"]
    ELSE CompleteLines(
            [db EXCEPT !.workOrders =
                UpdateWorkOrderCompleted(db.workOrders, work_order_id, now)],
            workOrderResults[1],
            SelectWorkOrderItems(db.workOrderItems, work_order_id))

\* One whole call of completeWorkOrder at time `now`.
completeWorkOrderRun(db, work_order_id, now) ==
    LET workOrderResults == SelectWorkOrder(db.workOrders, work_order_id) IN
    IF Len(workOrderResults) = 0
    THEN [db |-> db, outcome |-> "work_order_not_found"]
    ELSE IF workOrderResults[1].status # "IN_PROGRESS"
    THEN [db |-> db, outcome |-> "not_in_progress"]
    ELSE
        LET lines == CompleteLines(db, workOrderResults[1],
                                   SelectWorkOrderItems(db.workOrderItems, work_order_id))
        IN  IF lines.outcome # "ok"
            THEN lines
            ELSE [db |-> [lines.db EXCEPT !.workOrders =
                              UpdateWorkOrderCompleted(lines.db.workOrders, work_order_id, now)],
                  outcome |-> "ok"]

\* createWorkOrder with the table capped at maxWorkOrders rows.
createWorkOrderUpTo(maxWorkOrders, input, now, fault) ==
    LET r == createWorkOrderRun(DB, input, now, fault) IN
    /\ Len(r.db.workOrders) <= maxWorkOrders
    /\ Commit(r.db)
    /\ last' = [op |-> "createWorkOrder", outcome |-> r.outcome,
                arg |-> Len(workOrdersTable) + 1]
    /\ UNCHANGED <<poTables, procs>>

createWorkOrder(input, now, fault) ==
    createWorkOrderUpTo(MaxWorkOrders, input, now, fault)

completeWorkOrder(work_order_id, now) ==
    LET r == completeWorkOrderRun(DB, work_order_id, now) IN
    /\ Commit(r.db)
    /\ last' = [op |-> "completeWorkOrder", outcome |-> r.outcome, arg |-> work_order_id]
    /\ UNCHANGED <<poTables, procs>>

\* A work order written straight into the tables with status IN_PROGRESS,
\* and its lines, as the tests of completeWorkOrder set one up.
insertWorkOrderInProgress(lines) ==
    /\ Len(workOrdersTable) < MaxWorkOrders
    /\ workOrdersTable' = Append(workOrdersTable,
           [work_order_number |-> FixtureNumber(Len(workOrdersTable) + 1),
            assigned_technician |-> "tech1",
            status |-> "IN_PROGRESS",
            completed_at |-> NULL])
    /\ workOrderItemsTable' =
           workOrderItemsTable \o WorkOrderItemRows(Len(workOrdersTable) + 1, lines)
    /\ last' = [op |-> "insertWorkOrderInProgress", outcome |-> "ok",
                arg |-> Len(workOrdersTable) + 1]
    /\ UNCHANGED <<itemsTable, stockAdjustmentsTable, poTables, procs>>

\* The transition OPEN -> IN_PROGRESS of the work order state machine.
startWorkOrder(work_order_id) ==
    /\ work_order_id \in DOMAIN workOrdersTable
    /\ workOrdersTable[work_order_id].status = "OPEN"
    /\ workOrdersTable' = [workOrdersTable EXCEPT ![work_order_id].status = "IN_PROGRESS"]
    /\ last' = [op |-> "startWorkOrder", outcome |-> "ok", arg |-> work_order_id]
    /\ UNCHANGED <<itemsTable, stockAdjustmentsTable, workOrderItemsTable, poTables, procs>>

\* The times (Date.now(), ms) at which calls are made.
Times == {0, 1}

\* The work order ids a request may name.
RequestWorkOrderIds == 1..MaxWorkOrders

\* ----------------------------------------------------------- updateItem

\* updateItemInputSchema: id and optional fields; of the fields
\* minimum_stock and unit_price are modelled (<<>>: not given).  There is no
\* current_stock.
updateItemInputSchema ==
    [id : RequestItemIds, minimum_stock : {<<>>, <<0>>, <<1>>},
     unit_price : {<<>>, <<3000>>}]

\* An update that also resets current_stock to the minimum_stock it is given.
UpdateItemFieldsSetsStock(items, input) ==
    IF input.id \notin DOMAIN items THEN items
    ELSE [items EXCEPT ![input.id] =
            [@ EXCEPT !.minimum_stock = IF input.minimum_stock = <<>> THEN @
                                        ELSE input.minimum_stock[1],
                      !.current_stock = IF input.minimum_stock = <<>> THEN @
                                        ELSE input.minimum_stock[1],
                      !.unit_price = IF input.unit_price = <<>> THEN @
                                     ELSE RoundToCents(input.unit_price[1])]]

\* db.update(itemsTable).set(updateData).where(eq(itemsTable.id, id)): only
\* the columns of updateData are written.
UpdateItemFields(items, input) ==
    IF input.id \notin DOMAIN items THEN items
    ELSE [items EXCEPT ![input.id] =
            [@ EXCEPT !.minimum_stock = IF input.minimum_stock = <<>> THEN @
                                        ELSE input.minimum_stock[1],
                      !.unit_price = IF input.unit_price = <<>> THEN @
                                     ELSE RoundToCents(input.unit_price[1])]]

updateItemRun(db, input) ==
    IF Len(SelectItem(db.items, input.id)) = 0
    THEN [db |-> db, outcome |-> "item_not_found"]
    ELSE [db |-> [db EXCEPT !.items = UpdateItemFields(db.items, input)],
          outcome |-> "ok"]

updateItem(input) ==
    LET r == updateItemRun(DB, input) IN
    /\ Commit(r.db)
    /\ last' = [op |-> "updateItem", outcome |-> r.outcome, arg |-> input.id]
    /\ UNCHANGED <<poTables, procs>>

\* ------------------------------------------------------ createPurchaseOrder

\* suppliers: the ids in the table.  No modelled handler writes it.
suppliersTable == {1}

RequestSupplierIds == {1, 2}

\* Prices in thousandths of the currency unit: z.number().positive() takes
\* 0.005 as well as 1.00.
Prices == {5, 1000}

\* z.array(z.object({item_id, quantity: int positive, unit_price: positive}))
PurchaseLineSchema ==
    [item_id : RequestItemIds, quantity : PositiveQuantities, unit_price : Prices]

createPurchaseOrderInputSchema ==
    [supplier_id : RequestSupplierIds, items : ListsOf(PurchaseLineSchema, MaxLines)]

\* `PO-${year}-${month}-${day}-${timestamp}` for a call made at `now`.
PurchaseOrderNumber(now) == <<now \div MsPerDay, now % TimestampModulus>>

\* input.items.reduce((sum, item) => sum + item.quantity * item.unit_price, 0)
RECURSIVE TotalAmount(_)
TotalAmount(lines) ==
    IF lines = <<>> THEN 0
    ELSE TotalAmount(SubSeq(lines, 1, Len(lines) - 1))
         + lines[Len(lines)].quantity * lines[Len(lines)].unit_price

\* The rows of step 6, as the numeric columns store them.
PurchaseOrderItemRows(poId, lines) ==
    [k \in 1..Len(lines) |->
        [po_id |-> poId,
         item_id |-> lines[k].item_id,
         quantity |-> lines[k].quantity,
         unit_price |-> RoundToCents(lines[k].unit_price),
         total_price |-> RoundToCents(lines[k].quantity * lines[k].unit_price)]]

\* existingItems of step 3: the rows whose id is in itemIds, one per item.
ExistingItemIds(items, lines) ==
    {id \in DOMAIN items : \E k \in 1..Len(lines) : lines[k].item_id = id}

\* missingIds of step 3.
MissingIds(items, lines) ==
    SelectSeq([k \in 1..Len(lines) |-> lines[k].item_id],
              LAMBDA id : id \notin ExistingItemIds(items, lines))

PurchaseOrderNumberTaken(orders, number) ==
    \E i \in DOMAIN orders : orders[i].po_number = number

\* One whole call of createPurchaseOrder at time `now` on the purchase order
\* tables po, reading the items.  `fault`: the insert of the lines throws.
createPurchaseOrderRun(po, items, input, now, fault) ==
    LET order == [po_number |-> PurchaseOrderNumber(now),
                  supplier_id |-> input.supplier_id,
                  status |-> "DRAFT",
                  total_amount |-> RoundToCents(TotalAmount(input.items))]
        inserted == [po EXCEPT !.orders = Append(po.orders, order)]
    IN  IF input.supplier_id \notin suppliersTable
        THEN [po |-> po, outcome |-> "supplier_not_found", missing |-> <<>>]
        ELSE IF Cardinality(ExistingItemIds(items, input.items)) # Len(input.items)
        THEN [po |-> po, outcome |-> "items_not_found",
              missing |-> MissingIds(items, input.items)]
        ELSE IF PurchaseOrderNumberTaken(po.orders, order.po_number)
        THEN [po |-> po, outcome |-> "db_error", missing |-> <<>>]
        ELSE IF input.items = <<>>
        THEN [po |-> inserted, outcome |-> "empty_values", missing |-> <<>>]
        ELSE IF fault
        THEN [po |-> inserted, outcome |-> "db_error", missing |-> <<>>]
        ELSE [po |-> [inserted EXCEPT !.lines =
                          po.lines \o PurchaseOrderItemRows(Len(po.orders) + 1, input.items)],
              outcome |-> "ok", missing |-> <<>>]

\* createPurchaseOrder receiving the ordered quantities into stock.
createPurchaseOrderReceives(input, now, fault) ==
    LET r == createPurchaseOrderRun(
                [orders |-> purchaseOrdersTable, lines |-> purchaseOrderItemsTable],
                itemsTable, input, now, fault)
        ordered(i) == IF \E k \in DOMAIN input.items : input.items[k].item_id = i
                      THEN input.items[CHOOSE k \in DOMAIN input.items :
                                           input.items[k].item_id = i].quantity
                      ELSE 0
    IN  /\ Len(r.po.orders) <= MaxPurchaseOrders
        /\ purchaseOrdersTable' = r.po.orders
        /\ purchaseOrderItemsTable' = r.po.lines
        /\ itemsTable' = IF r.outcome # "ok" THEN itemsTable
                         ELSE [i \in DOMAIN itemsTable |->
                                [itemsTable[i] EXCEPT !.current_stock = @ + ordered(i)]]
        /\ last' = [op |-> "createPurchaseOrder", outcome |-> r.outcome,
                    arg |-> Len(purchaseOrdersTable) + 1]
        /\ UNCHANGED <<stockAdjustmentsTable, workOrdersTable,
                       workOrderItemsTable, procs>>

createPurchaseOrder(input, now, fault) ==
    LET r == createPurchaseOrderRun(
                [orders |-> purchaseOrdersTable, lines |-> purchaseOrderItemsTable],
                itemsTable, input, now, fault)
    IN  /\ Len(r.po.orders) <= MaxPurchaseOrders
        /\ purchaseOrdersTable' = r.po.orders
        /\ purchaseOrderItemsTable' = r.po.lines
        /\ last' = [op |-> "createPurchaseOrder", outcome |-> r.outcome,
                    arg |-> Len(purchaseOrdersTable) + 1]
        /\ UNCHANGED <<itemsTable, stockAdjustmentsTable, workOrdersTable,
                       workOrderItemsTable, procs>>

\* ------------------------------------------- the handlers, statement by statement

\* A call in flight: the handler, the statement it runs next and its locals.
\* A throw ends the call: the slot is Idle again and nothing is undone.
Call(op, pc, input, locals) ==
    [op |-> op, pc |-> pc, input |-> input, locals |-> locals]

At(p, op, pc) ==
    /\ procs[p] # Idle
    /\ procs[p].op = op
    /\ procs[p].pc = pc

Goto(p, call) == procs' = [procs EXCEPT ![p] = call]

\* adjustStock: the select of the item, the switch and its throws.
adjustStockSelect(p, input) ==
    LET existingItem == SelectItem(itemsTable, input.item_id)
        row == AdjustmentRow(input, existingItem[1].current_stock, WarehouseManager)
    IN  /\ procs[p] = Idle
        /\ IF Len(existingItem) = 0
           THEN Goto(p, Idle)
           ELSE IF AdjustThrows(input.adjustment_type, row.new_stock)
           THEN Goto(p, Idle)
           ELSE /\ row.new_stock <= MaxStock
                /\ Goto(p, Call("adjustStock", "update", input, row))
        /\ UNCHANGED <<tables, last>>

\* adjustStock: the update of current_stock.
adjustStockUpdate(p) ==
    /\ At(p, "adjustStock", "update")
    /\ itemsTable' = UpdateItemStock(itemsTable, procs[p].input.item_id,
                                     procs[p].locals.new_stock)
    /\ Goto(p, [procs[p] EXCEPT !.pc = "insert"])
    /\ UNCHANGED <<stockAdjustmentsTable, workOrdersTable, workOrderItemsTable,
                   poTables, last>>

\* adjustStock: the insert of the ledger row.
adjustStockInsert(p) ==
    /\ At(p, "adjustStock", "insert")
    /\ Len(stockAdjustmentsTable) < MaxAdjustments
    /\ stockAdjustmentsTable' = InsertStockAdjustment(stockAdjustmentsTable, procs[p].locals)
    /\ Goto(p, Idle)
    /\ UNCHANGED <<itemsTable, workOrdersTable, workOrderItemsTable, poTables, last>>

\* completeWorkOrder: the select of the work order and the status check.
completeWorkOrderSelect(p, work_order_id) ==
    LET workOrderResults == SelectWorkOrder(workOrdersTable, work_order_id) IN
    /\ procs[p] = Idle
    /\ IF Len(workOrderResults) = 0
       THEN Goto(p, Idle)
       ELSE IF workOrderResults[1].status # "IN_PROGRESS"
       THEN Goto(p, Idle)
       ELSE Goto(p, Call("completeWorkOrder", "selectItems", work_order_id,
                         [workOrder |-> workOrderResults[1],
                          workOrderItems |-> <<>>, row |-> NULL]))
    /\ UNCHANGED <<tables, last>>

\* completeWorkOrder: the select of the lines.
completeWorkOrderSelectItems(p) ==
    /\ At(p, "completeWorkOrder", "selectItems")
    /\ Goto(p, [procs[p] EXCEPT
                   !.pc = "selectItem",
                   !.locals.workOrderItems =
                       SelectWorkOrderItems(workOrderItemsTable, procs[p].input)])
    /\ UNCHANGED <<tables, last>>

\* completeWorkOrder, in the loop: the select of the line's item and the check
\* of the new stock.
completeWorkOrderSelectItem(p) ==
    /\ At(p, "completeWorkOrder", "selectItem")
    /\ procs[p].locals.workOrderItems # <<>>
    /\ LET workOrderItem == Head(procs[p].locals.workOrderItems)
           itemResults == SelectItem(itemsTable, workOrderItem.item_id)
           row == CompletionRow(procs[p].locals.workOrder, workOrderItem,
                                itemResults[1].current_stock)
       IN  IF Len(itemResults) = 0
           THEN Goto(p, Idle)
           ELSE IF row.new_stock < 0
           THEN Goto(p, Idle)
           ELSE Goto(p, [procs[p] EXCEPT !.pc = "updateItem", !.locals.row = row])
    /\ UNCHANGED <<tables, last>>

\* completeWorkOrder, in the loop: the update of the item's stock.
completeWorkOrderUpdateItem(p) ==
    /\ At(p, "completeWorkOrder", "updateItem")
    /\ itemsTable' = UpdateItemStock(itemsTable, procs[p].locals.row.item_id,
                                     procs[p].locals.row.new_stock)
    /\ Goto(p, [procs[p] EXCEPT !.pc = "insertAdjustment"])
    /\ UNCHANGED <<stockAdjustmentsTable, workOrdersTable, workOrderItemsTable,
                   poTables, last>>

\* completeWorkOrder, in the loop: the insert of the line's ledger row.
completeWorkOrderInsertAdjustment(p) ==
    /\ At(p, "completeWorkOrder", "insertAdjustment")
    /\ Len(stockAdjustmentsTable) < MaxAdjustments
    /\ stockAdjustmentsTable' =
           InsertStockAdjustment(stockAdjustmentsTable, procs[p].locals.row)
    /\ Goto(p, [procs[p] EXCEPT
                   !.pc = "selectItem",
                   !.locals.workOrderItems = Tail(@),
                   !.locals.row = NULL])
    /\ UNCHANGED <<itemsTable, workOrdersTable, workOrderItemsTable, poTables, last>>

\* completeWorkOrder, after the loop: the update of the work order.
completeWorkOrderUpdate(p, now) ==
    /\ At(p, "completeWorkOrder", "selectItem")
    /\ procs[p].locals.workOrderItems = <<>>
    /\ workOrdersTable' = UpdateWorkOrderCompleted(workOrdersTable, procs[p].input, now)
    /\ Goto(p, Idle)
    /\ UNCHANGED <<itemsTable, stockAdjustmentsTable, workOrderItemsTable, poTables, last>>

\* createWorkOrder: the number, the select of the technician and the role check.
createWorkOrderSelectTechnician(p, input, now) ==
    LET technician == SelectUser(input.assigned_technician) IN
    /\ procs[p] = Idle
    /\ IF Len(technician) = 0
       THEN Goto(p, Idle)
       ELSE IF technician[1].role # "TECHNICIAN"
       THEN Goto(p, Idle)
       ELSE Goto(p, Call("createWorkOrder", "selectItem", input,
                         [workOrderNumber |-> WorkOrderNumber(now),
                          toValidate |-> input.items, workOrderId |-> 0]))
    /\ UNCHANGED <<tables, last>>

\* createWorkOrder, in the validation loop: the select of one line's item
\* and the check of its stock.
createWorkOrderSelectItem(p) ==
    /\ At(p, "createWorkOrder", "selectItem")
    /\ procs[p].locals.toValidate # <<>>
    /\ IF ValidateLines(itemsTable, <<Head(procs[p].locals.toValidate)>>) # "ok"
       THEN Goto(p, Idle)
       ELSE Goto(p, [procs[p] EXCEPT !.locals.toValidate = Tail(@)])
    /\ UNCHANGED <<tables, last>>

\* createWorkOrder: the insert of the work order.
createWorkOrderInsert(p) ==
    /\ At(p, "createWorkOrder", "selectItem")
    /\ procs[p].locals.toValidate = <<>>
    /\ IF NumberTaken(workOrdersTable, procs[p].locals.workOrderNumber)
       THEN /\ Goto(p, Idle)
            /\ UNCHANGED workOrdersTable
       ELSE /\ Len(workOrdersTable) < MaxWorkOrders
            /\ workOrdersTable' = Append(workOrdersTable,
                   [work_order_number |-> procs[p].locals.workOrderNumber,
                    assigned_technician |-> procs[p].input.assigned_technician,
                    status |-> "OPEN",
                    completed_at |-> NULL])
            /\ Goto(p, [procs[p] EXCEPT !.pc = "insertItems",
                                        !.locals.workOrderId = Len(workOrdersTable) + 1])
    /\ UNCHANGED <<itemsTable, stockAdjustmentsTable, workOrderItemsTable, poTables, last>>

\* createWorkOrder: the insert of the lines; .values([]) throws.
createWorkOrderInsertItems(p) ==
    /\ At(p, "createWorkOrder", "insertItems")
    /\ workOrderItemsTable' =
           workOrderItemsTable
           \o WorkOrderItemRows(procs[p].locals.workOrderId, procs[p].input.items)
    /\ Goto(p, Idle)
    /\ UNCHANGED <<itemsTable, stockAdjustmentsTable, workOrdersTable, poTables, last>>

\* updateItem: the select of the item.
updateItemSelect(p, input) ==
    /\ procs[p] = Idle
    /\ IF Len(SelectItem(itemsTable, input.id)) = 0
       THEN Goto(p, Idle)
       ELSE Goto(p, Call("updateItem", "update", input, NULL))
    /\ UNCHANGED <<tables, last>>

\* updateItem: the update of the given columns.
updateItemUpdate(p) ==
    /\ At(p, "updateItem", "update")
    /\ itemsTable' = UpdateItemFields(itemsTable, procs[p].input)
    /\ Goto(p, Idle)
    /\ UNCHANGED <<stockAdjustmentsTable, workOrdersTable, workOrderItemsTable,
                   poTables, last>>

\* createPurchaseOrder: the number and the select of the supplier.
createPurchaseOrderSelectSupplier(p, input, now) ==
    /\ procs[p] = Idle
    /\ IF input.supplier_id \notin suppliersTable
       THEN Goto(p, Idle)
       ELSE Goto(p, Call("createPurchaseOrder", "selectItems", input,
                         [poNumber |-> PurchaseOrderNumber(now), poId |-> 0]))
    /\ UNCHANGED <<tables, last>>

\* createPurchaseOrder: the select of the items and the comparison of the counts.
createPurchaseOrderSelectItems(p) ==
    /\ At(p, "createPurchaseOrder", "selectItems")
    /\ IF Cardinality(ExistingItemIds(itemsTable, procs[p].input.items))
            # Len(procs[p].input.items)
       THEN Goto(p, Idle)
       ELSE Goto(p, [procs[p] EXCEPT !.pc = "insert"])
    /\ UNCHANGED <<tables, last>>

\* createPurchaseOrder: the insert of the purchase order.
createPurchaseOrderInsert(p) ==
    /\ At(p, "createPurchaseOrder", "insert")
    /\ IF PurchaseOrderNumberTaken(purchaseOrdersTable, procs[p].locals.poNumber)
       THEN /\ Goto(p, Idle)
            /\ UNCHANGED purchaseOrdersTable
       ELSE /\ Len(purchaseOrdersTable) < MaxPurchaseOrders
            /\ purchaseOrdersTable' = Append(purchaseOrdersTable,
                   [po_number |-> procs[p].locals.poNumber,
                    supplier_id |-> procs[p].input.supplier_id,
                    status |-> "DRAFT",
                    total_amount |-> RoundToCents(TotalAmount(procs[p].input.items))])
            /\ Goto(p, [procs[p] EXCEPT !.pc = "insertItems",
                                        !.locals.poId = Len(purchaseOrdersTable) + 1])
    /\ UNCHANGED <<itemsTable, stockAdjustmentsTable, workOrdersTable,
                   workOrderItemsTable, purchaseOrderItemsTable, last>>

\* createPurchaseOrder: the insert of the lines; .values([]) throws.
createPurchaseOrderInsertItems(p) ==
    /\ At(p, "createPurchaseOrder", "insertItems")
    /\ purchaseOrderItemsTable' =
           purchaseOrderItemsTable
           \o PurchaseOrderItemRows(procs[p].locals.poId, procs[p].input.items)
    /\ Goto(p, Idle)
    /\ UNCHANGED <<itemsTable, stockAdjustmentsTable, workOrdersTable,
                   workOrderItemsTable, purchaseOrdersTable, last>>

\* ------------------------------------------------------------ specifications

Init ==
    /\ itemsTable = <<>>
    /\ stockAdjustmentsTable = <<>>
    /\ workOrdersTable = <<>>
    /\ workOrderItemsTable = <<>>
    /\ purchaseOrdersTable = <<>>
    /\ purchaseOrderItemsTable = <<>>
    /\ procs = [p \in Procs |-> Idle]
    /\ last = [op |-> "none", outcome |-> "ok", arg |-> 0]

\* The stock movements made between the work order calls of SpecSeq.
StockMoves ==
    {input \in adjustStockInputSchema :
        /\ input.adjustment_type \in {"ADDITION", "REMOVAL"}
        /\ input.quantity_change = 1
        /\ input.reason.text # ""}

NextAdjust ==
    \/ \E input \in createItemInputSchema : createItem(input)
    \/ \E input \in adjustStockInputSchema : adjustStock(input, FALSE)

SpecAdjust == Init /\ [][NextAdjust]_vars

NextFault ==
    \/ \E input \in createItemInputSchema : createItem(input)
    \/ \E input \in adjustStockInputSchema, fault \in BOOLEAN : adjustStock(input, fault)

SpecFault == Init /\ [][NextFault]_vars

NextSeq ==
    \/ \E input \in createItemInputSchema : createItem(input)
    \/ \E input \in StockMoves : adjustStock(input, FALSE)
    \/ \E input \in createWorkOrderInputSchema, now \in Times :
            createWorkOrder(input, now, FALSE)
    \/ \E lines \in ListsOf(LineSchema, MaxLines) : insertWorkOrderInProgress(lines)
    \/ \E id \in RequestWorkOrderIds : startWorkOrder(id)
    \/ \E id \in RequestWorkOrderIds, now \in Times : completeWorkOrder(id, now)

SpecSeq == Init /\ [][NextSeq]_vars

\* The requests of the calls that overlap in Spec.
ConcurrentAdjusts ==
    {input \in adjustStockInputSchema :
        /\ input.item_id = 1
        /\ input.reason.text # ""
        /\ \/ input.adjustment_type \in {"ADDITION", "REMOVAL"} /\ input.quantity_change = 1
           \/ input.adjustment_type = "CORRECTION" /\ input.quantity_change = 0 - 1}

ConcurrentLines == {<<>>, <<[item_id |-> 1, quantity_used |-> 1]>>}

ConcurrentWorkOrders ==
    {input \in createWorkOrderInputSchema :
        input.assigned_technician = "tech1" /\ input.items \in ConcurrentLines}

ConcurrentUpdates ==
    {input \in updateItemInputSchema :
        input.id = 1 /\ input.minimum_stock = <<1>> /\ input.unit_price = <<>>}

ConcurrentPurchaseOrders ==
    {input \in createPurchaseOrderInputSchema :
        /\ input.supplier_id = 1
        /\ input.items = <<[item_id |-> 1, quantity |-> 1, unit_price |-> 1000]>>}

Next ==
    \/ \E input \in createItemInputSchema : createItem(input)
    \/ \E lines \in ConcurrentLines : insertWorkOrderInProgress(lines)
    \/ \E p \in Procs, input \in ConcurrentAdjusts : adjustStockSelect(p, input)
    \/ \E p \in Procs : adjustStockUpdate(p)
    \/ \E p \in Procs : adjustStockInsert(p)
    \/ \E p \in Procs, id \in RequestWorkOrderIds : completeWorkOrderSelect(p, id)
    \/ \E p \in Procs : completeWorkOrderSelectItems(p)
    \/ \E p \in Procs : completeWorkOrderSelectItem(p)
    \/ \E p \in Procs : completeWorkOrderUpdateItem(p)
    \/ \E p \in Procs : completeWorkOrderInsertAdjustment(p)
    \/ \E p \in Procs : completeWorkOrderUpdate(p, 0)
    \/ \E p \in Procs, input \in ConcurrentWorkOrders :
            createWorkOrderSelectTechnician(p, input, 0)
    \/ \E p \in Procs : createWorkOrderSelectItem(p)
    \/ \E p \in Procs : createWorkOrderInsert(p)
    \/ \E p \in Procs : createWorkOrderInsertItems(p)
    \/ \E p \in Procs, input \in ConcurrentUpdates : updateItemSelect(p, input)
    \/ \E p \in Procs : updateItemUpdate(p)
    \/ \E p \in Procs, input \in ConcurrentPurchaseOrders :
            createPurchaseOrderSelectSupplier(p, input, 0)
    \/ \E p \in Procs : createPurchaseOrderSelectItems(p)
    \/ \E p \in Procs : createPurchaseOrderInsert(p)
    \/ \E p \in Procs : createPurchaseOrderInsertItems(p)

Spec == Init /\ [][Next]_vars

\* Two slots running adjustStock only.
NextRace ==
    \/ \E input \in createItemInputSchema : createItem(input)
    \/ \E p \in Procs, input \in ConcurrentAdjusts : adjustStockSelect(p, input)
    \/ \E p \in Procs : adjustStockUpdate(p)
    \/ \E p \in Procs : adjustStockInsert(p)

SpecRace == Init /\ [][NextRace]_vars

\* new Date() of a completion's last statement: the clock never runs behind
\* a completed_at already written.
TimesNotBefore(workOrders) ==
    {t \in Times :
        \A w \in DOMAIN workOrders :
            workOrders[w].completed_at # NULL => t >= workOrders[w].completed_at[1]}

\* Work orders made by createWorkOrder and started, with two slots running
\* completeWorkOrder statement by statement.
NextComplete ==
    \/ \E input \in createItemInputSchema : createItem(input)
    \/ \E input \in ConcurrentWorkOrders, now \in Times :
            input.items # <<>> /\ createWorkOrder(input, now, FALSE)
    \/ \E id \in RequestWorkOrderIds : startWorkOrder(id)
    \/ \E p \in Procs, id \in RequestWorkOrderIds : completeWorkOrderSelect(p, id)
    \/ \E p \in Procs : completeWorkOrderSelectItems(p)
    \/ \E p \in Procs : completeWorkOrderSelectItem(p)
    \/ \E p \in Procs : completeWorkOrderUpdateItem(p)
    \/ \E p \in Procs : completeWorkOrderInsertAdjustment(p)
    \/ \E p \in Procs, now \in TimesNotBefore(workOrdersTable) :
            completeWorkOrderUpdate(p, now)

SpecComplete == Init /\ [][NextComplete]_vars

\* createItem and createWorkOrder, call by call, over the whole input schema,
\* with a storage failure possible at the insert of the lines.
NextCreate ==
    \/ \E input \in createItemInputSchema : createItem(input)
    \/ \E input \in createWorkOrderInputSchema, now \in Times, fault \in BOOLEAN :
            createWorkOrderUpTo(MaxCreated, input, now, fault)

SpecCreate == Init /\ [][NextCreate]_vars

\* Date.now() of a call made when a table holds n rows: time moves on
\* between the calls, so a call is later than the ones that filled the table.
CallTimes(n) == {n * TimestampModulus, n * TimestampModulus + 1}

\* Work orders and purchase orders with lines, created one call after the
\* other, each call later than the ones before it.
NextNumbers ==
    \/ \E input \in createItemInputSchema : createItem(input)
    \/ \E input \in createWorkOrderInputSchema, now \in CallTimes(Len(workOrdersTable)) :
            input.items # <<>> /\ createWorkOrder(input, now, FALSE)
    \/ \E input \in createPurchaseOrderInputSchema,
          now \in CallTimes(Len(purchaseOrdersTable)) :
            input.items # <<>> /\ createPurchaseOrder(input, now, FALSE)

SpecNumbers == Init /\ [][NextNumbers]_vars

\* The catalog and the purchase orders, call by call, over the whole input
\* schemas, with a storage failure possible at the insert of the lines.
NextPurchase ==
    \/ \E input \in createItemInputSchema : createItem(input)
    \/ \E input \in updateItemInputSchema : updateItem(input)
    \/ \E input \in StockMoves : adjustStock(input, FALSE)
    \/ \E input \in createPurchaseOrderInputSchema, now \in Times, fault \in BOOLEAN :
            createPurchaseOrder(input, now, fault)

SpecPurchase == Init /\ [][NextPurchase]_vars

\* Every handler that writes, call by call, none overlapping another, and
\* the work orders the tests set up IN_PROGRESS.  The stock adjustments are
\* those by one unit, of every type.
CallAdjusts ==
    {input \in adjustStockInputSchema :
        /\ input.reason.text # ""
        /\ input.quantity_change \in {0 - 1, 1}}

NextCalls ==
    \/ \E input \in createItemInputSchema : createItem(input)
    \/ \E input \in updateItemInputSchema : updateItem(input)
    \/ \E input \in CallAdjusts : adjustStock(input, FALSE)
    \/ \E input \in ConcurrentWorkOrders : createWorkOrder(input, 0, FALSE)
    \/ \E lines \in ListsOf(LineSchema, MaxLines) : insertWorkOrderInProgress(lines)
    \/ \E id \in RequestWorkOrderIds : completeWorkOrder(id, 0)
    \/ \E input \in ConcurrentPurchaseOrders : createPurchaseOrder(input, 0, FALSE)

SpecCalls == Init /\ [][NextCalls]_vars

\* The operations the router exposes, call by call: no row is written
\* except by a handler.
NextExposed ==
    \/ \E input \in createItemInputSchema : createItem(input)
    \/ \E input \in updateItemInputSchema : updateItem(input)
    \/ \E input \in StockMoves : adjustStock(input, FALSE)
    \/ \E input \in createWorkOrderInputSchema, now \in Times :
            createWorkOrder(input, now, FALSE)
    \/ \E id \in RequestWorkOrderIds, now \in Times : completeWorkOrder(id, now)
    \/ \E input \in ConcurrentPurchaseOrders, now \in Times :
            createPurchaseOrder(input, now, FALSE)

SpecExposed == Init /\ [][NextExposed]_vars

\* ------------------------------------------------------------------ claims

\* The ledger rows completeWorkOrder wrote for work order w.
CompletionRowsOf(w) ==
    SelectSeq(stockAdjustmentsTable,
              LAMBDA r : r.reason.ref = workOrdersTable[w].work_order_number)

Count(seq, Test(_)) == Len(SelectSeq(seq, Test))

\* adjustStock called once per line, in order, as the Recorder's adjust:
\* REMOVAL, quantity_used, the work order number in the reason, the
\* technician as actor.  Stops at the first call that throws.
RECURSIVE AdjustEachLine(_, _, _)
AdjustEachLine(db, workOrder, workOrderItems) ==
    IF workOrderItems = <<>> THEN [db |-> db, outcome |-> "ok"]
    ELSE
        LET r == adjustStockRun(db,
                    [item_id |-> Head(workOrderItems).item_id,
                     adjustment_type |-> "REMOVAL",
                     quantity_change |-> Head(workOrderItems).quantity_used,
                     reason |-> Reason("Work order completion: ",
                                       workOrder.work_order_number)],
                    workOrder.assigned_technician, FALSE)
        IN  IF r.outcome # "ok" THEN r
            ELSE AdjustEachLine(r.db, workOrder, Tail(workOrderItems))

\* C1: in every reachable state, whatever the interleaving of the statements
\* of adjustStock, completeWorkOrder, createWorkOrder, createPurchaseOrder
\* and updateItem, every item's current_stock is >= 0.
C1_StockNeverNegative ==
    \A i \in DOMAIN itemsTable : itemsTable[i].current_stock >= 0

\* C1's case: two overlapping removals both read the last unit in stock and
\* both committed; the stock is 0.
C1_Witness ==
    /\ Len(stockAdjustmentsTable) = 2
    /\ \A k \in 1..2 :
          /\ stockAdjustmentsTable[k].adjustment_type = "REMOVAL"
          /\ stockAdjustmentsTable[k].previous_stock = 1
    /\ itemsTable[1].current_stock = 0

\* C2: every row of the ledger, written by adjustStock or by
\* completeWorkOrder, has new_stock = previous_stock + quantity_change and
\* new_stock >= 0.
C2_LedgerRowArithmetic ==
    \A k \in DOMAIN stockAdjustmentsTable :
        /\ stockAdjustmentsTable[k].new_stock
              = stockAdjustmentsTable[k].previous_stock
                + stockAdjustmentsTable[k].quantity_change
        /\ stockAdjustmentsTable[k].new_stock >= 0

\* C2's case: the ledger holds a row of adjustStock and a row of
\* completeWorkOrder.
C2_Witness ==
    /\ \E k \in DOMAIN stockAdjustmentsTable : stockAdjustmentsTable[k].reason.ref = <<>>
    /\ \E k \in DOMAIN stockAdjustmentsTable : stockAdjustmentsTable[k].reason.ref # <<>>

\* C3: two adjustStock calls on the same item serialize: of two rows of the
\* item that follow each other in the ledger, the later one's previous_stock
\* is the earlier one's new_stock, and once no call is in flight the item's
\* current_stock is the new_stock of its latest row.
C3_ConcurrentAdjustsSerialize ==
    /\ \A i, j \in DOMAIN stockAdjustmentsTable :
          (/\ i < j
           /\ stockAdjustmentsTable[i].item_id = stockAdjustmentsTable[j].item_id
           /\ \A k \in (i + 1)..(j - 1) :
                 stockAdjustmentsTable[k].item_id # stockAdjustmentsTable[i].item_id)
          => stockAdjustmentsTable[j].previous_stock = stockAdjustmentsTable[i].new_stock
    /\ (\A p \in Procs : procs[p] = Idle)
          => \A j \in DOMAIN stockAdjustmentsTable :
                (\A k \in (j + 1)..Len(stockAdjustmentsTable) :
                    stockAdjustmentsTable[k].item_id # stockAdjustmentsTable[j].item_id)
                => itemsTable[stockAdjustmentsTable[j].item_id].current_stock
                       = stockAdjustmentsTable[j].new_stock

\* C4: a completeWorkOrder call that fails on a line for insufficient stock
\* leaves every item's current_stock and the ledger as they were before the
\* call.
C4_FailedCompletionPersistsNothing ==
    [][(last'.op = "completeWorkOrder" /\ last'.outcome = "insufficient_stock")
        => (itemsTable' = itemsTable /\ stockAdjustmentsTable' = stockAdjustmentsTable)]_vars

\* C5: whenever a call of adjustStock changes an item's current_stock, it
\* also adds the ledger row that records the change.
C5_AdjustWritesStockAndRowTogether ==
    [][(last'.op = "adjustStock" /\ itemsTable' # itemsTable)
        => /\ Len(stockAdjustmentsTable') = Len(stockAdjustmentsTable) + 1
           /\ LET row == stockAdjustmentsTable'[Len(stockAdjustmentsTable')] IN
              /\ row.item_id = last'.arg
              /\ row.previous_stock = itemsTable[last'.arg].current_stock
              /\ row.new_stock = itemsTable'[last'.arg].current_stock]_vars

\* C6: a completeWorkOrder call on a COMPLETED work order fails with the
\* must-be-IN_PROGRESS error, and the ledger never holds more deductions of
\* a work order than the work order has lines of that item and quantity.
C6_DeductedAtMostOnce ==
    /\ \A w \in DOMAIN workOrdersTable, now \in Times :
          workOrdersTable[w].status = "COMPLETED"
              => completeWorkOrderRun(DB, w, now).outcome = "not_in_progress"
    /\ \A w \in DOMAIN workOrdersTable, line \in LineSchema :
          Count(CompletionRowsOf(w),
                LAMBDA r : r.item_id = line.item_id
                           /\ r.quantity_change = 0 - line.quantity_used)
            <= Count(SelectWorkOrderItems(workOrderItemsTable, w),
                     LAMBDA l : l.item_id = line.item_id
                                /\ l.quantity_used = line.quantity_used)

\* The first half of C6 alone: the second call on a completed work order
\* fails and writes nothing.
CompletedWorkOrderIsRefused ==
    [][(last'.op = "completeWorkOrder"
        /\ last'.arg \in DOMAIN workOrdersTable
        /\ workOrdersTable[last'.arg].status = "COMPLETED")
        => (last'.outcome = "not_in_progress" /\ UNCHANGED tables)]_vars

\* C7: a successful completeWorkOrder on a work order with N lines leaves
\* items and ledger as N calls of adjustStock (REMOVAL, quantity_used, the
\* work order number in the reason, the technician as actor) would, adds
\* exactly N REMOVAL rows with quantity_change = -quantity_used, and sets
\* the status to COMPLETED.
C7_CompletionIsAdjustPerLine ==
    [][(last'.op = "completeWorkOrder" /\ last'.outcome = "ok")
        => LET w == last'.arg
               lines == SelectWorkOrderItems(workOrderItemsTable, w)
               each == AdjustEachLine(DB, workOrdersTable[w], lines)
               n == Len(stockAdjustmentsTable)
           IN  /\ workOrdersTable[w].status = "IN_PROGRESS"
               /\ each.outcome = "ok"
               /\ itemsTable' = each.db.items
               /\ stockAdjustmentsTable' = each.db.adjustments
               /\ Len(stockAdjustmentsTable') = n + Len(lines)
               /\ \A k \in 1..Len(lines) :
                     /\ stockAdjustmentsTable'[n + k].adjustment_type = "REMOVAL"
                     /\ stockAdjustmentsTable'[n + k].item_id = lines[k].item_id
                     /\ stockAdjustmentsTable'[n + k].quantity_change
                            = 0 - lines[k].quantity_used
                     /\ stockAdjustmentsTable'[n + k].reason.ref
                            = workOrdersTable[w].work_order_number
                     /\ stockAdjustmentsTable'[n + k].adjusted_by
                            = workOrdersTable[w].assigned_technician
               /\ workOrdersTable'[w].status = "COMPLETED"
               /\ workOrderItemsTable' = workOrderItemsTable]_vars

\* C7's case: a completion of a two-line work order has just succeeded.
C7_Witness ==
    /\ last.op = "completeWorkOrder" /\ last.outcome = "ok"
    /\ Len(SelectWorkOrderItems(workOrderItemsTable, last.arg)) = 2
    /\ Len(stockAdjustmentsTable) = 2

\* C8: completeWorkOrder fails with not-found when the id names no work
\* order and with must-be-IN_PROGRESS when the status is OPEN or COMPLETED,
\* and in both cases changes no table.
C8_RefusedCompletionChangesNothing ==
    [][last'.op = "completeWorkOrder"
        => /\ last'.arg \notin DOMAIN workOrdersTable
                => (last'.outcome = "work_order_not_found" /\ UNCHANGED tables)
           /\ (last'.arg \in DOMAIN workOrdersTable
               /\ workOrdersTable[last'.arg].status \in {"OPEN", "COMPLETED"})
                => (last'.outcome = "not_in_progress" /\ UNCHANGED tables)]_vars

\* C8's case: a completion of an OPEN work order has just been refused.
C8_Witness ==
    /\ last.op = "completeWorkOrder" /\ last.outcome = "not_in_progress"
    /\ last.arg \in DOMAIN workOrdersTable
    /\ workOrdersTable[last.arg].status = "OPEN"

\* C9: a completeWorkOrder call that fails on a line (insufficient stock or
\* no such item) leaves the work order IN_PROGRESS with completed_at null.
C9_FailedCompletionKeepsStatus ==
    [][(last'.op = "completeWorkOrder"
        /\ last'.outcome \in {"insufficient_stock", "item_not_found"})
        => /\ workOrdersTable'[last'.arg].status = "IN_PROGRESS"
           /\ workOrdersTable'[last'.arg].completed_at = NULL
           /\ workOrdersTable' = workOrdersTable]_vars

\* C9's case: a completion has just failed on its second line, the first
\* line's deduction already written.
C9_Witness ==
    /\ last.op = "completeWorkOrder"
    /\ last.outcome \in {"insufficient_stock", "item_not_found"}
    /\ Len(CompletionRowsOf(last.arg)) > 0

\* C10: a call of adjustStock that fails (no such item, or a REMOVAL or
\* CORRECTION that would make the stock negative) changes no item's
\* current_stock and adds no ledger row.
C10_FailedAdjustChangesNothing ==
    [][(last'.op = "adjustStock"
        /\ last'.outcome \in {"item_not_found", "insufficient_stock", "negative_correction"})
        => (itemsTable' = itemsTable /\ stockAdjustmentsTable' = stockAdjustmentsTable)]_vars

\* C10's case: a removal of more than the stock has just been rejected.
C10_Witness ==
    /\ last.op = "adjustStock" /\ last.outcome = "insufficient_stock"
    /\ last.arg \in DOMAIN itemsTable
    /\ itemsTable[last.arg].current_stock > 0

\* C11: for an existing item with stock s and any integer q of the schema,
\* adjustStock computes s + |q| for ADDITION, s - |q| for REMOVAL and s + q
\* for CORRECTION; it throws exactly when the type is REMOVAL or CORRECTION
\* and the result is negative (0 is accepted); on success current_stock is
\* the result and the row carries previous_stock = s and the signed change.
C11_AdjustArithmetic ==
    \A input \in adjustStockInputSchema :
        input.item_id \in DOMAIN itemsTable =>
            LET s == itemsTable[input.item_id].current_stock
                q == input.quantity_change
                magnitude == IF q < 0 THEN 0 - q ELSE q
                expected == CASE input.adjustment_type = "ADDITION" -> s + magnitude
                              [] input.adjustment_type = "REMOVAL" -> s - magnitude
                              [] input.adjustment_type = "CORRECTION" -> s + q
                r == adjustStockRun(DB, input, WarehouseManager, FALSE)
                row == r.db.adjustments[Len(r.db.adjustments)]
            IN  IF input.adjustment_type \in {"REMOVAL", "CORRECTION"} /\ expected < 0
                THEN /\ r.outcome \in {"insufficient_stock", "negative_correction"}
                     /\ r.db = DB
                ELSE /\ r.outcome = "ok"
                     /\ r.db.items[input.item_id].current_stock = expected
                     /\ Len(r.db.adjustments) = Len(stockAdjustmentsTable) + 1
                     /\ row.previous_stock = s
                     /\ row.new_stock = expected
                     /\ row.quantity_change = expected - s
                     /\ r = adjustStockRun(DB, [input EXCEPT !.quantity_change =
                                                   IF input.adjustment_type = "CORRECTION"
                                                   THEN q ELSE 0 - q],
                                           WarehouseManager, FALSE)

\* C11's case: a removal that takes the whole stock has just been accepted.
C11_Witness ==
    /\ last.op = "adjustStock" /\ last.outcome = "ok"
    /\ stockAdjustmentsTable # <<>>
    /\ LET row == stockAdjustmentsTable[Len(stockAdjustmentsTable)] IN
       /\ row.adjustment_type = "REMOVAL"
       /\ row.previous_stock > 0
       /\ row.new_stock = 0
       /\ itemsTable[row.item_id].current_stock = 0

\* C12: in every row of the ledger the sign of quantity_change matches the
\* type: positive for ADDITION, negative for REMOVAL.
C12_SignMatchesType ==
    \A k \in DOMAIN stockAdjustmentsTable :
        /\ stockAdjustmentsTable[k].adjustment_type = "ADDITION"
              => stockAdjustmentsTable[k].quantity_change > 0
        /\ stockAdjustmentsTable[k].adjustment_type = "REMOVAL"
              => stockAdjustmentsTable[k].quantity_change < 0

\* C13: every row of the ledger has a non-empty reason.
C13_ReasonNonEmpty ==
    \A k \in DOMAIN stockAdjustmentsTable : stockAdjustmentsTable[k].reason.text # ""

\* C15: completion validates the stock again: a completeWorkOrder call on
\* an IN_PROGRESS work order whose first line asks for more than the item's
\* current_stock fails with the insufficient-stock error, changes no stock
\* and leaves no stock negative, although createWorkOrder accepted the line.
C15_CompletionRevalidates ==
    [][(/\ last'.op = "completeWorkOrder"
        /\ last'.arg \in DOMAIN workOrdersTable
        /\ workOrdersTable[last'.arg].status = "IN_PROGRESS"
        /\ LET lines == SelectWorkOrderItems(workOrderItemsTable, last'.arg) IN
           /\ lines # <<>>
           /\ lines[1].item_id \in DOMAIN itemsTable
           /\ itemsTable[lines[1].item_id].current_stock < lines[1].quantity_used)
        => /\ last'.outcome = "insufficient_stock"
           /\ itemsTable' = itemsTable
           /\ \A i \in DOMAIN itemsTable' : itemsTable'[i].current_stock >= 0]_vars

\* C15's case: createWorkOrder accepted the work order, a later adjustStock
\* removal took the stock its line needs, and the completion has just failed
\* for insufficient stock.
C15_Witness ==
    /\ last.op = "completeWorkOrder" /\ last.outcome = "insufficient_stock"
    /\ last.arg \in DOMAIN workOrdersTable
    /\ workOrdersTable[last.arg].work_order_number \in {WorkOrderNumber(t) : t \in Times}
    /\ workOrdersTable[last.arg].status = "IN_PROGRESS"
    /\ CompletionRowsOf(last.arg) = <<>>
    /\ \E k \in DOMAIN stockAdjustmentsTable :
          /\ stockAdjustmentsTable[k].adjustment_type = "REMOVAL"
          /\ stockAdjustmentsTable[k].reason.ref = <<>>
    /\ LET lines == SelectWorkOrderItems(workOrderItemsTable, last.arg) IN
       /\ lines # <<>>
       /\ lines[1].item_id \in DOMAIN itemsTable
       /\ itemsTable[lines[1].item_id].current_stock < lines[1].quantity_used

\* C14: for every work order made by createWorkOrder, completed_at is
\* non-null exactly when the status is COMPLETED, and once a work order is
\* COMPLETED neither its status nor its completed_at changes again.
C14_CompletedAtSetOnce ==
    [][/\ \A w \in DOMAIN workOrdersTable' :
             (workOrdersTable'[w].completed_at # NULL)
                 <=> (workOrdersTable'[w].status = "COMPLETED")
       /\ \A w \in DOMAIN workOrdersTable :
             workOrdersTable[w].status = "COMPLETED"
                 => /\ workOrdersTable'[w].status = "COMPLETED"
                    /\ workOrdersTable'[w].completed_at = workOrdersTable[w].completed_at]_vars

\* C16: createWorkOrder, whether it succeeds or fails, leaves every item's
\* current_stock and the ledger as they were.
C16_CreateReservesNothing ==
    [][last'.op = "createWorkOrder"
        => (itemsTable' = itemsTable /\ stockAdjustmentsTable' = stockAdjustmentsTable)]_vars

\* C16's case: two work orders have been created whose lines on item 1
\* each fit its stock and together exceed it.
C16_Witness ==
    /\ last.op = "createWorkOrder" /\ last.outcome = "ok"
    /\ Len(workOrdersTable) = 2
    /\ stockAdjustmentsTable = <<>>
    /\ \A w \in 1..2 :
          /\ workOrdersTable[w].status = "OPEN"
          /\ \E k \in DOMAIN workOrderItemsTable :
                /\ workOrderItemsTable[k].work_order_id = w
                /\ workOrderItemsTable[k].item_id = 1
    /\ \E j, k \in DOMAIN workOrderItemsTable :
          /\ workOrderItemsTable[j].work_order_id = 1
          /\ workOrderItemsTable[k].work_order_id = 2
          /\ workOrderItemsTable[j].item_id = 1
          /\ workOrderItemsTable[k].item_id = 1
          /\ workOrderItemsTable[j].quantity_used + workOrderItemsTable[k].quantity_used
                > itemsTable[1].current_stock

\* C17: with a valid technician, createWorkOrder throws and writes nothing
\* when a line names no item or more than the item's current_stock, and
\* never throws for the lines otherwise: a line asking for exactly the
\* current_stock is accepted.
C17_CreateValidatesLines ==
    \A input \in createWorkOrderInputSchema, now \in Times :
        input.assigned_technician = "tech1" =>
            LET r == createWorkOrderRun(DB, input, now, FALSE)
                Bad(line) ==
                    \/ line.item_id \notin DOMAIN itemsTable
                    \/ itemsTable[line.item_id].current_stock < line.quantity_used
                anyBad == \E k \in DOMAIN input.items : Bad(input.items[k])
            IN  /\ anyBad => /\ r.outcome \in {"item_not_found", "insufficient_stock"}
                             /\ r.db = DB
                /\ ~anyBad => r.outcome \notin {"item_not_found", "insufficient_stock"}
                /\ (/\ ~anyBad
                    /\ input.items # <<>>
                    /\ ~NumberTaken(workOrdersTable, WorkOrderNumber(now)))
                      => r.outcome = "ok"

\* C17's case: a work order whose line asks for exactly the stock of its
\* item has just been created.
C17_Witness ==
    /\ last.op = "createWorkOrder" /\ last.outcome = "ok"
    /\ \E k \in DOMAIN workOrderItemsTable :
          /\ workOrderItemsTable[k].work_order_id = last.arg
          /\ workOrderItemsTable[k].quantity_used
                = itemsTable[workOrderItemsTable[k].item_id].current_stock

\* C18: createWorkOrder throws and writes nothing whenever
\* assigned_technician names no user or a user whose role is not TECHNICIAN.
C18_CreateRequiresTechnician ==
    \A input \in createWorkOrderInputSchema, now \in Times, fault \in BOOLEAN :
        (\/ input.assigned_technician \notin DOMAIN usersTable
         \/ usersTable[input.assigned_technician] # "TECHNICIAN")
            => LET r == createWorkOrderRun(DB, input, now, fault) IN
               /\ r.outcome = IF input.assigned_technician \in DOMAIN usersTable
                              THEN "not_technician" ELSE "technician_not_found"
               /\ r.db = DB

\* C18's case: a request naming an ADMIN, with lines the stock covers, has
\* just been refused.
C18_Witness ==
    /\ last.op = "createWorkOrder" /\ last.outcome = "not_technician"
    /\ itemsTable # <<>>
    /\ itemsTable[1].current_stock > 0
    /\ workOrdersTable = <<>>

\* C19: a createWorkOrder call that fails leaves no work order and no line
\* behind: the work order and its lines are persisted together or not at all.
C19_CreateAllOrNothing ==
    [][(last'.op = "createWorkOrder" /\ last'.outcome # "ok")
        => (workOrdersTable' = workOrdersTable
            /\ workOrderItemsTable' = workOrderItemsTable)]_vars

\* C20: generated numbers are unique: the work_order_number and the
\* po_number that a call made now would generate are not the number of a row
\* created by an earlier call.
C20_GeneratedNumbersUnique ==
    /\ \A now \in CallTimes(Len(workOrdersTable)) :
          ~NumberTaken(workOrdersTable, WorkOrderNumber(now))
    /\ \A now \in CallTimes(Len(purchaseOrdersTable)) :
          ~PurchaseOrderNumberTaken(purchaseOrdersTable, PurchaseOrderNumber(now))

\* ---- C21 .. C30

\* The purchase order tables, as createPurchaseOrderRun takes them.
PO == [orders |-> purchaseOrdersTable, lines |-> purchaseOrderItemsTable]

\* The sum over the first k request lines of quantity x unit_price.
RECURSIVE SumOfLines(_, _)
SumOfLines(lines, k) ==
    IF k = 0 THEN 0
    ELSE lines[k].quantity * lines[k].unit_price + SumOfLines(lines, k - 1)

\* The purchase order a successful call has just stored (and returns, with
\* total_amount read back from the row).
StoredOrder(r) == r.po.orders[Len(r.po.orders)]

\* Whatever the catalog price of the items, the total is computed from the
\* request's unit prices and stored at two decimals.
TotalUsesRequestPrices ==
    \A input \in createPurchaseOrderInputSchema, now \in Times :
        LET r == createPurchaseOrderRun(PO, itemsTable, input, now, FALSE) IN
        r.outcome = "ok" =>
            StoredOrder(r).total_amount
                = RoundToCents(SumOfLines(input.items, Len(input.items)))

\* C21: a successful createPurchaseOrder stores (and returns) total_amount
\* equal to the sum over the request lines of quantity x unit_price, with the
\* unit prices of the request.
C21_TotalIsSumOfRequestLines ==
    \A input \in createPurchaseOrderInputSchema, now \in Times :
        LET r == createPurchaseOrderRun(PO, itemsTable, input, now, FALSE) IN
        r.outcome = "ok" =>
            StoredOrder(r).total_amount = SumOfLines(input.items, Len(input.items))

\* The stored lines of purchase order id, in order.
LinesOfOrder(id) ==
    SelectSeq(purchaseOrderItemsTable, LAMBDA row : row.po_id = id)

\* The sum of the stored total_price of the first k rows.
RECURSIVE SumOfTotalPrices(_, _)
SumOfTotalPrices(rows, k) ==
    IF k = 0 THEN 0 ELSE rows[k].total_price + SumOfTotalPrices(rows, k - 1)

\* C22: the purchase order a successful createPurchaseOrder has persisted has
\* total_amount equal to the sum of the stored total_price of its rows, and
\* every row's total_price equals quantity x its stored unit_price.
C22_StoredTotalsAgree ==
    (last.op = "createPurchaseOrder" /\ last.outcome = "ok") =>
        LET rows == LinesOfOrder(last.arg) IN
        /\ purchaseOrdersTable[last.arg].total_amount
               = SumOfTotalPrices(rows, Len(rows))
        /\ \A k \in DOMAIN rows :
               rows[k].total_price = rows[k].quantity * rows[k].unit_price

\* The item ids of the request lines that are in no row of the items table.
MissingItemIdsOf(input) ==
    {input.items[k].item_id : k \in DOMAIN input.items} \ DOMAIN itemsTable

\* C23: with an existing supplier, createPurchaseOrder fails with the
\* items-not-found error exactly when some line references a nonexistent
\* item, and the error then lists exactly all the missing item ids.
C23_ItemsNotFoundIffMissing ==
    \A input \in createPurchaseOrderInputSchema, now \in Times :
        LET r == createPurchaseOrderRun(PO, itemsTable, input, now, FALSE) IN
        input.supplier_id \in suppliersTable =>
            /\ r.outcome = "items_not_found" <=> MissingItemIdsOf(input) # {}
            /\ r.outcome = "items_not_found" =>
                   {r.missing[k] : k \in DOMAIN r.missing} = MissingItemIdsOf(input)

\* The same without requests that name an item twice: the error is raised
\* exactly for a missing item and lists all of the missing ids.
ItemsNotFoundIffMissingNoDuplicates ==
    \A input \in createPurchaseOrderInputSchema, now \in Times :
        LET r == createPurchaseOrderRun(PO, itemsTable, input, now, FALSE) IN
        (/\ input.supplier_id \in suppliersTable
         /\ \A j, k \in DOMAIN input.items :
                input.items[j].item_id = input.items[k].item_id => j = k) =>
            /\ r.outcome = "items_not_found" <=> MissingItemIdsOf(input) # {}
            /\ r.outcome = "items_not_found" =>
                   {r.missing[k] : k \in DOMAIN r.missing} = MissingItemIdsOf(input)

\* A successful createPurchaseOrder persists the order with status DRAFT and
\* exactly one row per request line, in the order of the request.
SuccessPersistsOrderAndLines ==
    \A input \in createPurchaseOrderInputSchema, now \in Times, fault \in BOOLEAN :
        LET r == createPurchaseOrderRun(PO, itemsTable, input, now, fault)
            id == Len(purchaseOrdersTable) + 1
        IN  r.outcome = "ok" =>
                /\ Len(r.po.orders) = id
                /\ SubSeq(r.po.orders, 1, id - 1) = purchaseOrdersTable
                /\ r.po.orders[id].status = "DRAFT"
                /\ r.po.orders[id].supplier_id = input.supplier_id
                /\ Len(r.po.lines) = Len(purchaseOrderItemsTable) + Len(input.items)
                /\ \A k \in DOMAIN input.items :
                       LET row == r.po.lines[Len(purchaseOrderItemsTable) + k] IN
                       /\ row.po_id = id
                       /\ row.item_id = input.items[k].item_id
                       /\ row.quantity = input.items[k].quantity

\* C24: createPurchaseOrder is all-or-nothing: a call that fails persists no
\* purchase order and no line; a call that succeeds persists one order, with
\* status DRAFT, together with its lines.
C24_PurchaseOrderAllOrNothing ==
    [][last'.op = "createPurchaseOrder" =>
        IF last'.outcome # "ok"
        THEN /\ purchaseOrdersTable' = purchaseOrdersTable
             /\ purchaseOrderItemsTable' = purchaseOrderItemsTable
        ELSE /\ Len(purchaseOrdersTable') = Len(purchaseOrdersTable) + 1
             /\ purchaseOrdersTable'[last'.arg].status = "DRAFT"
             /\ \E k \in 1..MaxLines :
                    /\ Len(purchaseOrderItemsTable') = Len(purchaseOrderItemsTable) + k
                    /\ \A j \in 1..k :
                           purchaseOrderItemsTable'[Len(purchaseOrderItemsTable) + j].po_id
                               = last'.arg]_vars

\* C25: createPurchaseOrder, whether it succeeds or fails, changes no item's
\* current_stock (nor any other field of an item) and creates no
\* StockAdjustment row.
C25_PurchaseOrderLeavesStock ==
    [][last'.op = "createPurchaseOrder" =>
        /\ itemsTable' = itemsTable
        /\ stockAdjustmentsTable' = stockAdjustmentsTable]_vars

\* A purchase order for an item in stock has been created after a stock
\* movement: the stock is what the ledger row left, the ledger has that row only.
C25_Witness ==
    /\ last.op = "createPurchaseOrder" /\ last.outcome = "ok"
    /\ Len(purchaseOrderItemsTable) = 1
    /\ Len(stockAdjustmentsTable) = 1
    /\ itemsTable[1].current_stock = stockAdjustmentsTable[1].new_stock
    /\ itemsTable[1].current_stock > 0

\* C26: the current_stock of an existing item is changed by adjustStock and
\* completeWorkOrder only; updateItem, whatever fields it is given, leaves
\* every current_stock as it was and writes no StockAdjustment row.
C26_StockChangedOnlyByRecorder ==
    [][/\ \A i \in DOMAIN itemsTable :
             itemsTable'[i].current_stock # itemsTable[i].current_stock
                 => last'.op \in {"adjustStock", "completeWorkOrder"}
       /\ last'.op = "updateItem" =>
             /\ \A i \in DOMAIN itemsTable :
                    itemsTable'[i].current_stock = itemsTable[i].current_stock
             /\ stockAdjustmentsTable' = stockAdjustmentsTable]_vars

\* updateItem has changed the minimum_stock and the unit_price of an item
\* that has stock and a ledger row: the stock is still what the row left.
C26_Witness ==
    /\ last.op = "updateItem" /\ last.outcome = "ok"
    /\ itemsTable[1].minimum_stock = 1
    /\ itemsTable[1].unit_price = 3000
    /\ Len(stockAdjustmentsTable) = 1
    /\ itemsTable[1].current_stock = stockAdjustmentsTable[1].new_stock
    /\ itemsTable[1].current_stock = 2

\* C27: the StockAdjustment ledger is append-only: no step of any handler
\* removes a row or changes a field of a row that exists; rows are only added.
C27_LedgerAppendOnly ==
    [][/\ Len(stockAdjustmentsTable') >= Len(stockAdjustmentsTable)
       /\ \A k \in DOMAIN stockAdjustmentsTable :
              stockAdjustmentsTable'[k] = stockAdjustmentsTable[k]]_vars

\* A manual adjustment and a work order completion have both written a row
\* for the same item.
C27_Witness ==
    /\ Len(stockAdjustmentsTable) = 2
    /\ stockAdjustmentsTable[1].item_id = stockAdjustmentsTable[2].item_id
    /\ \E j, k \in DOMAIN stockAdjustmentsTable :
           /\ stockAdjustmentsTable[j].reason.ref # <<>>
           /\ stockAdjustmentsTable[k].reason.ref = <<>>

\* C28: under the operations the router exposes, every work order is OPEN
\* and stays OPEN: none is IN_PROGRESS or COMPLETED, no completeWorkOrder
\* call succeeds, and no ledger row deducts stock for a work order.
C28_WorkOrdersStayOpen ==
    /\ \A w \in DOMAIN workOrdersTable :
           /\ workOrdersTable[w].status = "OPEN"
           /\ workOrdersTable[w].completed_at = NULL
           /\ CompletionRowsOf(w) = <<>>
    /\ last.op = "completeWorkOrder" =>
           last.outcome \in {"work_order_not_found", "not_in_progress"}

\* completeWorkOrder has been called on a work order that createWorkOrder
\* created with a line the stock covers, and was refused.
C28_Witness ==
    /\ last = [op |-> "completeWorkOrder", outcome |-> "not_in_progress", arg |-> 1]
    /\ Len(workOrdersTable) = 1
    /\ \E k \in DOMAIN workOrderItemsTable :
           /\ workOrderItemsTable[k].work_order_id = 1
           /\ workOrderItemsTable[k].item_id \in DOMAIN itemsTable
           /\ itemsTable[workOrderItemsTable[k].item_id].current_stock
                  >= workOrderItemsTable[k].quantity_used

\* The ledger rows of item i in the table `adjustments`, by creation.
RowsOfItem(adjustments, i) ==
    SelectSeq(adjustments, LAMBDA row : row.item_id = i)

\* The rows of item i form a chain that ends at the item's current_stock,
\* and each row's new_stock is its previous_stock plus its quantity_change.
ChainOfItem(items, adjustments, i) ==
    LET rows == RowsOfItem(adjustments, i) IN
    /\ \A k \in DOMAIN rows :
           /\ rows[k].new_stock = rows[k].previous_stock + rows[k].quantity_change
           /\ k > 1 => rows[k].previous_stock = rows[k - 1].new_stock
    /\ rows # <<>> => rows[Len(rows)].new_stock = items[i].current_stock

\* C29: with the calls run one after the other, after every call the ledger
\* rows of each item form a chain (each previous_stock is the preceding
\* row's new_stock) that ends at the item's current_stock; an item without
\* rows keeps the stock it was created with, and its first row starts from it.
C29_LedgerChain ==
    [][\A i \in DOMAIN itemsTable' :
          /\ ChainOfItem(itemsTable', stockAdjustmentsTable', i)
          /\ (i \in DOMAIN itemsTable /\ RowsOfItem(stockAdjustmentsTable, i) = <<>>) =>
                 IF RowsOfItem(stockAdjustmentsTable', i) = <<>>
                 THEN itemsTable'[i].current_stock = itemsTable[i].current_stock
                 ELSE RowsOfItem(stockAdjustmentsTable', i)[1].previous_stock
                          = itemsTable[i].current_stock]_vars

\* A completion of a work order with two lines on the same item has written
\* two rows, the second starting where the first ended.
C29_Witness ==
    /\ last.op = "completeWorkOrder" /\ last.outcome = "ok"
    /\ Len(RowsOfItem(stockAdjustmentsTable, 1)) = 2
    /\ stockAdjustmentsTable[1].new_stock = 1
    /\ stockAdjustmentsTable[2].previous_stock = 1
    /\ itemsTable[1].current_stock = 0

\* The tables db with work order id moved from OPEN to IN_PROGRESS.
InProgress(db, id) ==
    [db EXCEPT !.workOrders[id].status = "IN_PROGRESS"]

\* A work order that createWorkOrder accepts in the current state, with no
\* item named on two lines, and that is completed at once (moved to
\* IN_PROGRESS, nothing else in between) completes.
AcceptedWorkOrderCompletesNoDuplicates ==
    \A input \in createWorkOrderInputSchema, now \in Times :
        LET created == createWorkOrderRun(DB, input, now, FALSE)
            id == Len(workOrdersTable) + 1
        IN  (/\ created.outcome = "ok"
             /\ \A j, k \in DOMAIN input.items :
                    input.items[j].item_id = input.items[k].item_id => j = k) =>
                completeWorkOrderRun(InProgress(created.db, id), id, now).outcome = "ok"

\* C30: a work order that createWorkOrder has accepted, completed (once it
\* is IN_PROGRESS) with no current_stock changed since its creation,
\* completes without an insufficient-stock failure, also when several of its
\* lines reference the same item.  Every change of a current_stock writes a
\* ledger row: with the ledger empty before the completion, no stock has
\* changed since the work order was created.
C30_AcceptedWorkOrderCompletes ==
    [][(/\ last'.op = "completeWorkOrder"
        /\ stockAdjustmentsTable = <<>>
        /\ last'.arg \in DOMAIN workOrdersTable
        /\ workOrdersTable[last'.arg].status = "IN_PROGRESS"
        /\ workOrdersTable[last'.arg].work_order_number
               # FixtureNumber(last'.arg))
       => last'.outcome # "insufficient_stock"]_vars

====
